---- MODULE Spec2Model ----
(***************************************************************************)
(* Model of the IoT edge gateway (Gateway_Rasp.py, class EdgeGateway):     *)
(* the in-memory device registry, the SQLite tables, the MQTT message      *)
(* handlers, the health sweep and the telemetry retention purge.           *)
(*                                                                         *)
(* Time is a discrete clock.  A datetime is a number of ticks; its         *)
(* isoformat() text, which is what the tables store and what the purge     *)
(* compares, is a sequence of character codes.  The descriptive columns of *)
(* a device (device_type, mac_address, ip_address, firmware_version,       *)
(* capabilities) are copied from the payload verbatim and are left out.    *)
(***************************************************************************)
EXTENDS Integers, Sequences, FiniteSets, TLC

VARIABLES
    now,           \* the wall clock read by datetime.now()
    devices,       \* self.devices: device_id -> DeviceInfo
    deviceKeys,    \* insertion order of the keys of self.devices
    dbDevices,     \* table devices: device_id -> row
    dbTelemetry,   \* table telemetry: rows in rowid order
    dbCommands,    \* table commands: rows in rowid order
    published,     \* messages handed to mqtt_client.publish by the last step
    cloud_client,  \* self.cloud_client
    cloudTasks,    \* payloads given to asyncio.create_task(send_to_cloud_api)
    routerAlive,   \* FALSE once an exception has escaped on_mqtt_message
    dbFailed,      \* history: some table write has raised
    swept,         \* history: devices a sweep demoted, no message since
    last,          \* history: the step just taken and what it did
    running,       \* self.running
    startPc,       \* where start() is: new, serving, returned, stopped, closed
    healthPc,      \* the health_check_loop task: none, ready, sleeping, done,
                   \*   cancelled
    cleanupPc,     \* the cleanup_loop task, likewise
    sweep          \* the frame of a check_device_health call in progress

vars == <<now, devices, deviceKeys, dbDevices, dbTelemetry, dbCommands,
          published, cloud_client, cloudTasks, routerAlive, dbFailed, swept,
          last, running, startPc, healthPc, cleanupPc, sweep>>

\* The lifecycle controller, its two tasks and the sweep frame
lifecycle == <<running, startPc, healthPc, cleanupPc, sweep>>

----------------------------------------------------------------------------
(* Bounds of the model *)

MaxTime == 3          \* last clock value explored
MaxTelemetry == 1     \* rows the telemetry table holds at a time
TicksPerSecond == 2   \* clock ticks per whole second (sub-second resolution)

(* Program constants, in clock ticks *)

OfflineThreshold == 1 \* timedelta(minutes=5)
RetentionDays == 1    \* retention_days, fallback=30

StartTime == RetentionDays   \* the clock at construction; cutoff dates exist

----------------------------------------------------------------------------
(* Values *)

None == "None"                       \* Python None, where a string may stand
NoTime == 0 - 1                      \* Python None, where a datetime may stand
NullText == <<>>                     \* SQL NULL in a TIMESTAMP column
DeviceIds == {"", "d1"}              \* device_id values seen in payloads
StatusInputs == {"online", "offline"}

Temperatures == {"21.5"}

\* Outcomes of a table write that Spec explores: TRUE, the write succeeds.
\* (The failing branch of every write is the ok = FALSE case of the table
\* primitives below.)
DbOutcomes == {TRUE}

\* dict.get(key, default) and `key in dict` on a JSON object
HasKey(payload, key) == key \in DOMAIN payload
Get(payload, key, default) == IF HasKey(payload, key) THEN payload[key] ELSE default

\* Python truth value of a payload field (None and "" are false)
Truthy(v) == v # None /\ v # ""

----------------------------------------------------------------------------
(* datetime.isoformat(): fixed-width whole seconds, then ".f" only when    *)
(* the sub-second part is non-zero.  Characters are their ASCII codes.     *)

Digit(n) == 48 + n
Dot == 46

IsoFormat(t) ==
    LET s == t \div TicksPerSecond
        f == t % TicksPerSecond
    IN  <<Digit(s \div 10), Digit(s % 10)>> \o
        (IF f = 0 THEN <<>> ELSE <<Dot, Digit(f)>>)

\* datetime.fromisoformat()
FromIsoFormat(str) ==
    ((str[1] - 48) * 10 + (str[2] - 48)) * TicksPerSecond
      + (IF Len(str) > 2 THEN str[4] - 48 ELSE 0)

\* SQLite text comparison a < b (memcmp, then the shorter string first)
RECURSIVE TextLess(_, _)
TextLess(a, b) ==
    IF b = <<>> THEN FALSE
    ELSE IF a = <<>> THEN TRUE
    ELSE IF Head(a) # Head(b) THEN Head(a) < Head(b)
    ELSE TextLess(Tail(a), Tail(b))

----------------------------------------------------------------------------
(* Python dict and SQLite table primitives *)

\* d[key] = value; a new key goes to the end of the iteration order
DictSet(d, key, value) ==
    [k \in (DOMAIN d) \cup {key} |-> IF k = key THEN value ELSE d[k]]

KeysAfterSet(keys, d, key) ==
    IF key \in DOMAIN d THEN keys ELSE Append(keys, key)

\* The number of times id occurs in a sequence of ids
Count(seq, id) == Cardinality({i \in DOMAIN seq : seq[i] = id})

\* DeviceInfo(...) with the fields the registry logic uses
DeviceInfo(last_seen, status, registration_time) ==
    [last_seen |-> last_seen, status |-> status,
     registration_time |-> registration_time]

\* save_device as an UPDATE of an existing row instead of INSERT OR REPLACE
save_device_UpdateOnly(table, device_id, device, ok) ==
    IF ok /\ device_id \in DOMAIN table
    THEN DictSet(table, device_id,
             [status |-> device.status,
              last_seen |-> IF device.last_seen # NoTime
                            THEN IsoFormat(device.last_seen) ELSE NullText,
              registration_time |-> IF device.registration_time # NoTime
                                    THEN IsoFormat(device.registration_time)
                                    ELSE NullText])
    ELSE table

\* INSERT OR REPLACE INTO devices ...; a raised error is logged and swallowed
save_device(table, device_id, device, ok) ==
    IF ok
    THEN DictSet(table, device_id,
             [status |-> device.status,
              last_seen |-> IF device.last_seen # NoTime
                            THEN IsoFormat(device.last_seen) ELSE NullText,
              registration_time |-> IF device.registration_time # NoTime
                                    THEN IsoFormat(device.registration_time)
                                    ELSE NullText])
    ELSE table

\* INSERT INTO telemetry ...; rows are kept in rowid order (the rowid itself
\* is read nowhere)
save_telemetry(rows, telemetry, ok) ==
    IF ok
    THEN Append(rows, [device_id |-> telemetry.device_id,
                       timestamp |-> IsoFormat(telemetry.timestamp),
                       temperature |-> telemetry.temperature])
    ELSE rows

\* UPDATE devices SET status = ?, last_seen = ? WHERE device_id = ?
\* t is the datetime.now() read inside the call.
update_device_status(table, device_id, status, t, ok) ==
    IF ok /\ device_id \in DOMAIN table
    THEN [table EXCEPT ![device_id].status = status,
                       ![device_id].last_seen = IsoFormat(t)]
    ELSE table

\* forward_to_cloud: wraps the payload and schedules send_to_cloud_api
forward_to_cloud(tasks, client, message_type, payload) ==
    IF client = None THEN tasks
    ELSE Append(tasks, [message_type |-> message_type, data |-> payload])

\* The record kept in `last` for every step
\* (id: the payload's device_id; writes: the update_device_status calls made;
\* warns: the "marked as offline" warnings logged; deleted: cursor.rowcount
\* of the purge; was: the registry status of device id before the step)
Step(op, id, writes, warns, deleted, was) ==
    [op |-> op, id |-> id, writes |-> writes, warns |-> warns,
     deleted |-> deleted, was |-> was]

\* The status of a device_id in a registry or table, None when it has no entry
StatusOf(d, id) == IF id \in DOMAIN d THEN d[id].status ELSE None

----------------------------------------------------------------------------
(* Inbound payloads *)

RegistrationPayloads ==
    {[device_type |-> "sensor"]} \cup
    {[device_id |-> d, device_type |-> "sensor"] : d \in DeviceIds}

TelemetryPayloads ==
    {[uptime |-> 1]} \cup
    {[device_id |-> d, uptime |-> 1, temperature |-> c] :
        d \in DeviceIds, c \in Temperatures}

StatusPayloads ==
    {[ip_address |-> "10.0.0.7"]} \cup
    {[device_id |-> d, ip_address |-> "10.0.0.7"] : d \in DeviceIds} \cup
    {[device_id |-> d, status |-> s] : d \in DeviceIds, s \in StatusInputs}

----------------------------------------------------------------------------
(* State after EdgeGateway() on an empty database *)

EmptyDict == [k \in {} |-> None]
NoIds == <<>>

\* No check_device_health call is in progress
NoSweep ==
    [pc |-> "idle", i |-> 0, current_time |-> NoTime, size |-> 0,
     device_id |-> None, detached |-> FALSE]

\* EdgeGateway(): empty registry and tables, nothing published
Constructed ==
    /\ now = StartTime
    /\ devices = EmptyDict
    /\ deviceKeys = <<>>
    /\ dbDevices = EmptyDict
    /\ dbTelemetry = <<>>
    /\ dbCommands = <<>>
    /\ published = <<>>
    /\ cloud_client = None
    /\ cloudTasks = <<>>
    /\ routerAlive = TRUE
    /\ dbFailed = FALSE
    /\ swept = {}
    /\ last = Step("init", None, NoIds, NoIds, 0, None)
    /\ sweep = NoSweep

\* The gateway in service: constructed, start() has connected and created
\* the two tasks, which are between two iterations
Init ==
    /\ Constructed
    /\ running = TRUE
    /\ startPc = "serving"
    /\ healthPc = "sleeping"
    /\ cleanupPc = "sleeping"

----------------------------------------------------------------------------
(* Message handlers.  t1, t2 are the successive datetime.now() readings    *)
(* of the handler; dbOk tells whether its table write succeeds.  A handler *)
(* runs to completion within one tick of the clock, so the steps below     *)
(* pass the current tick for every reading.                                *)

\* A message is dropped: only a diagnostic is logged.
Dropped(op, id) ==
    /\ last' = Step(op, id, NoIds, NoIds, 0, StatusOf(devices, id))
    /\ UNCHANGED <<now, devices, deviceKeys, dbDevices, dbTelemetry,
                   dbCommands, cloud_client, cloudTasks, routerAlive,
                   dbFailed, swept>>
    /\ published' = <<>>

\* handle_device_registration taking status from the payload, like the
\* descriptive fields
handle_device_registration_StatusFromPayload(payload, t1, t2, dbOk) ==
    IF ~HasKey(payload, "device_id")
    THEN \* payload['device_id'] raises KeyError, caught and logged
         Dropped("registration", None)
    ELSE LET device_id == payload["device_id"]
             device == DeviceInfo(t1, Get(payload, "status", "unknown"), t2)
         IN  /\ last' = Step("registration", device_id, NoIds, NoIds, 0,
                             StatusOf(devices, device_id))
             /\ dbDevices' = save_device(dbDevices, device_id, device, dbOk)
             /\ devices' = DictSet(devices, device_id, device)
             /\ deviceKeys' = KeysAfterSet(deviceKeys, devices, device_id)
             /\ published' = <<[topic |-> <<"devices", device_id, "commands">>,
                              command |-> "registration_confirmed",
                              gateway_id |-> "gateway_001"]>>
             /\ now' = t2
             /\ dbFailed' = (dbFailed \/ ~dbOk)
             /\ swept' = swept \ {device_id}
             /\ UNCHANGED <<dbTelemetry, dbCommands, cloud_client,
                            cloudTasks, routerAlive>>

\* handle_device_registration entering the device as offline until it reports
handle_device_registration_StartsOffline(payload, t1, t2, dbOk) ==
    IF ~HasKey(payload, "device_id")
    THEN \* payload['device_id'] raises KeyError, caught and logged
         Dropped("registration", None)
    ELSE LET device_id == payload["device_id"]
             device == DeviceInfo(t1, "offline", t2)
         IN  /\ last' = Step("registration", device_id, NoIds, NoIds, 0,
                             StatusOf(devices, device_id))
             /\ dbDevices' = save_device(dbDevices, device_id, device, dbOk)
             /\ devices' = DictSet(devices, device_id, device)
             /\ deviceKeys' = KeysAfterSet(deviceKeys, devices, device_id)
             /\ published' = <<[topic |-> <<"devices", device_id, "commands">>,
                              command |-> "registration_confirmed",
                              gateway_id |-> "gateway_001"]>>
             /\ now' = t2
             /\ dbFailed' = (dbFailed \/ ~dbOk)
             /\ swept' = swept \ {device_id}
             /\ UNCHANGED <<dbTelemetry, dbCommands, cloud_client,
                            cloudTasks, routerAlive>>

\* handle_device_registration building the DeviceInfo without last_seen
\* (the field's default, None)
handle_device_registration_NoLastSeen(payload, t1, t2, dbOk) ==
    IF ~HasKey(payload, "device_id")
    THEN \* payload['device_id'] raises KeyError, caught and logged
         Dropped("registration", None)
    ELSE LET device_id == payload["device_id"]
             device == DeviceInfo(NoTime, "online", t2)
         IN  /\ last' = Step("registration", device_id, NoIds, NoIds, 0,
                             StatusOf(devices, device_id))
             /\ dbDevices' = save_device(dbDevices, device_id, device, dbOk)
             /\ devices' = DictSet(devices, device_id, device)
             /\ deviceKeys' = KeysAfterSet(deviceKeys, devices, device_id)
             /\ published' = <<[topic |-> <<"devices", device_id, "commands">>,
                              command |-> "registration_confirmed",
                              gateway_id |-> "gateway_001"]>>
             /\ now' = t2
             /\ dbFailed' = (dbFailed \/ ~dbOk)
             /\ swept' = swept \ {device_id}
             /\ UNCHANGED <<dbTelemetry, dbCommands, cloud_client,
                            cloudTasks, routerAlive>>

handle_device_registration(payload, t1, t2, dbOk) ==
    IF ~HasKey(payload, "device_id")
    THEN \* payload['device_id'] raises KeyError, caught and logged
         Dropped("registration", None)
    ELSE LET device_id == payload["device_id"]
             device == DeviceInfo(t1, "online", t2)
         IN  /\ last' = Step("registration", device_id, NoIds, NoIds, 0,
                             StatusOf(devices, device_id))
             /\ dbDevices' = save_device(dbDevices, device_id, device, dbOk)
             /\ devices' = DictSet(devices, device_id, device)
             /\ deviceKeys' = KeysAfterSet(deviceKeys, devices, device_id)
             /\ published' = <<[topic |-> <<"devices", device_id, "commands">>,
                              command |-> "registration_confirmed",
                              gateway_id |-> "gateway_001"]>>
             /\ now' = t2
             /\ dbFailed' = (dbFailed \/ ~dbOk)
             /\ swept' = swept \ {device_id}
             /\ UNCHANGED <<dbTelemetry, dbCommands, cloud_client,
                            cloudTasks, routerAlive>>

\* handle_telemetry without the `if not device_id` test
handle_telemetry_NoIdTest(payload, t1, t2, dbOk) ==
    LET device_id == Get(payload, "device_id", None) IN
    IF FALSE
    THEN \* "Telemetry message missing device_id"
         Dropped("telemetry", device_id)
    ELSE LET telemetry == [device_id |-> device_id, timestamp |-> t2,
                           temperature |-> Get(payload, "temperature", None)]
         IN  /\ last' = Step("telemetry", device_id, NoIds, NoIds, 0,
                             StatusOf(devices, device_id))
             /\ devices' = IF device_id \in DOMAIN devices
                           THEN [devices EXCEPT ![device_id].last_seen = t1,
                                                ![device_id].status = "online"]
                           ELSE devices
             /\ dbTelemetry' = save_telemetry(dbTelemetry, telemetry, dbOk)
             /\ cloudTasks' = forward_to_cloud(cloudTasks, cloud_client,
                                               "telemetry", payload)
             /\ now' = t2
             /\ dbFailed' = (dbFailed \/ ~dbOk)
             /\ swept' = swept \ {device_id}
             /\ published' = <<>>
             /\ UNCHANGED <<deviceKeys, dbDevices, dbCommands, cloud_client,
                            routerAlive>>

\* handle_telemetry refreshing last_seen only
handle_telemetry_KeepsStatus(payload, t1, t2, dbOk) ==
    LET device_id == Get(payload, "device_id", None) IN
    IF ~Truthy(device_id)
    THEN \* "Telemetry message missing device_id"
         Dropped("telemetry", device_id)
    ELSE LET telemetry == [device_id |-> device_id, timestamp |-> t2,
                           temperature |-> Get(payload, "temperature", None)]
         IN  /\ last' = Step("telemetry", device_id, NoIds, NoIds, 0,
                             StatusOf(devices, device_id))
             /\ devices' = IF device_id \in DOMAIN devices
                           THEN [devices EXCEPT ![device_id].last_seen = t1]
                           ELSE devices
             /\ dbTelemetry' = save_telemetry(dbTelemetry, telemetry, dbOk)
             /\ cloudTasks' = forward_to_cloud(cloudTasks, cloud_client,
                                               "telemetry", payload)
             /\ now' = t2
             /\ dbFailed' = (dbFailed \/ ~dbOk)
             /\ swept' = swept \ {device_id}
             /\ published' = <<>>
             /\ UNCHANGED <<deviceKeys, dbDevices, dbCommands, cloud_client,
                            routerAlive>>

\* handle_telemetry entering an unknown device into the registry
handle_telemetry_Upsert(payload, t1, t2, dbOk) ==
    LET device_id == Get(payload, "device_id", None) IN
    IF ~Truthy(device_id)
    THEN \* "Telemetry message missing device_id"
         Dropped("telemetry", device_id)
    ELSE LET telemetry == [device_id |-> device_id, timestamp |-> t2,
                           temperature |-> Get(payload, "temperature", None)]
         IN  /\ last' = Step("telemetry", device_id, NoIds, NoIds, 0,
                             StatusOf(devices, device_id))
             /\ devices' = DictSet(devices, device_id,
                                   DeviceInfo(t1, "online",
                                      IF device_id \in DOMAIN devices
                                      THEN devices[device_id].registration_time
                                      ELSE NoTime))
             /\ deviceKeys' = KeysAfterSet(deviceKeys, devices, device_id)
             /\ dbTelemetry' = save_telemetry(dbTelemetry, telemetry, dbOk)
             /\ cloudTasks' = forward_to_cloud(cloudTasks, cloud_client,
                                               "telemetry", payload)
             /\ now' = t2
             /\ dbFailed' = (dbFailed \/ ~dbOk)
             /\ swept' = swept \ {device_id}
             /\ published' = <<>>
             /\ UNCHANGED <<dbDevices, dbCommands, cloud_client,
                            routerAlive>>

handle_telemetry(payload, t1, t2, dbOk) ==
    LET device_id == Get(payload, "device_id", None) IN
    IF ~Truthy(device_id)
    THEN \* "Telemetry message missing device_id"
         Dropped("telemetry", device_id)
    ELSE LET telemetry == [device_id |-> device_id, timestamp |-> t2,
                           temperature |-> Get(payload, "temperature", None)]
         IN  /\ last' = Step("telemetry", device_id, NoIds, NoIds, 0,
                             StatusOf(devices, device_id))
             /\ devices' = IF device_id \in DOMAIN devices
                           THEN [devices EXCEPT ![device_id].last_seen = t1,
                                                ![device_id].status = "online"]
                           ELSE devices
             /\ dbTelemetry' = save_telemetry(dbTelemetry, telemetry, dbOk)
             /\ cloudTasks' = forward_to_cloud(cloudTasks, cloud_client,
                                               "telemetry", payload)
             /\ now' = t2
             /\ dbFailed' = (dbFailed \/ ~dbOk)
             /\ swept' = swept \ {device_id}
             /\ published' = <<>>
             /\ UNCHANGED <<deviceKeys, dbDevices, dbCommands, cloud_client,
                            routerAlive>>

\* handle_status_update creating the registry entry of an unknown device
handle_status_update_Upsert(payload, t1, t2, dbOk) ==
    LET device_id == Get(payload, "device_id", None)
        status == Get(payload, "status", "unknown")
    IN
    IF device_id \notin DOMAIN devices
    THEN /\ last' = Step("status", device_id, NoIds, NoIds, 0,
                         StatusOf(devices, device_id))
         /\ devices' = DictSet(devices, device_id,
                                DeviceInfo(t1, status, NoTime))
         /\ deviceKeys' = Append(deviceKeys, device_id)
         /\ published' = <<>>
         /\ UNCHANGED <<now, dbDevices, dbTelemetry, dbCommands, cloud_client,
                        cloudTasks, routerAlive, dbFailed, swept>>
    ELSE /\ last' = Step("status", device_id, <<device_id>>, NoIds, 0,
                         StatusOf(devices, device_id))
         /\ devices' = [devices EXCEPT ![device_id].status = status,
                                       ![device_id].last_seen = t1]
         /\ dbDevices' = update_device_status(dbDevices, device_id, status,
                                              t2, dbOk)
         /\ now' = t2
         /\ dbFailed' = (dbFailed \/ ~dbOk)
         /\ swept' = swept \ {device_id}
         /\ published' = <<>>
         /\ UNCHANGED <<deviceKeys, dbTelemetry, dbCommands, cloud_client,
                        cloudTasks, routerAlive>>

handle_status_update(payload, t1, t2, dbOk) ==
    LET device_id == Get(payload, "device_id", None)
        status == Get(payload, "status", "unknown")
    IN
    IF device_id \notin DOMAIN devices
    THEN Dropped("status", device_id)
    ELSE /\ last' = Step("status", device_id, <<device_id>>, NoIds, 0,
                         StatusOf(devices, device_id))
         /\ devices' = [devices EXCEPT ![device_id].status = status,
                                       ![device_id].last_seen = t1]
         /\ dbDevices' = update_device_status(dbDevices, device_id, status,
                                              t2, dbOk)
         /\ now' = t2
         /\ dbFailed' = (dbFailed \/ ~dbOk)
         /\ swept' = swept \ {device_id}
         /\ published' = <<>>
         /\ UNCHANGED <<deviceKeys, dbTelemetry, dbCommands, cloud_client,
                        cloudTasks, routerAlive>>

\* on_mqtt_message: json.loads, then dispatch on the topic.  Every handler
\* swallows its exceptions, and so does the router: nothing escapes.
on_mqtt_message(topic, parses, payload, t1, t2, dbOk) ==
    IF ~parses
    THEN Dropped("malformed", None)
    ELSE CASE topic = "telemetry" -> handle_telemetry(payload, t1, t2, dbOk)
           [] topic = "status" -> handle_status_update(payload, t1, t2, dbOk)
           [] topic = "registration" ->
                  handle_device_registration(payload, t1, t2, dbOk)
           [] OTHER -> Dropped("ignored", None)

----------------------------------------------------------------------------
(* Background work *)

\* check_device_health without the `device.status != 'offline'` test
RECURSIVE SweepFrom_NoOfflineTest(_, _, _, _, _, _)
SweepFrom_NoOfflineTest(i, keys, acc, current_time, tw, okIds) ==
    IF i > Len(keys) THEN acc
    ELSE LET device_id == keys[i]
             device == acc.devices[device_id]
         IN  IF /\ device.last_seen # NoTime
                /\ (current_time - device.last_seen) > OfflineThreshold
             THEN SweepFrom_NoOfflineTest(i + 1, keys,
                     [devices |-> [acc.devices EXCEPT
                                      ![device_id].status = "offline"],
                      table |-> update_device_status(acc.table, device_id,
                                    "offline", tw, device_id \in okIds),
                      writes |-> Append(acc.writes, device_id),
                      warns |-> Append(acc.warns, device_id)],
                     current_time, tw, okIds)
             ELSE SweepFrom_NoOfflineTest(i + 1, keys, acc, current_time,
                                          tw, okIds)

\* The loop body of check_device_health over keys[i..]: acc carries the
\* registry, the devices table and the calls and warnings made so far.
\* tw is the clock read by update_device_status, okIds the devices whose
\* UPDATE succeeds.
RECURSIVE SweepFrom(_, _, _, _, _, _)
SweepFrom(i, keys, acc, current_time, tw, okIds) ==
    IF i > Len(keys) THEN acc
    ELSE LET device_id == keys[i]
             device == acc.devices[device_id]
         IN  IF /\ device.last_seen # NoTime
                /\ (current_time - device.last_seen) > OfflineThreshold
                /\ device.status # "offline"
             THEN SweepFrom(i + 1, keys,
                     [devices |-> [acc.devices EXCEPT
                                      ![device_id].status = "offline"],
                      table |-> update_device_status(acc.table, device_id,
                                    "offline", tw, device_id \in okIds),
                      writes |-> Append(acc.writes, device_id),
                      warns |-> Append(acc.warns, device_id)],
                     current_time, tw, okIds)
             ELSE SweepFrom(i + 1, keys, acc, current_time, tw, okIds)

check_device_health(tw, okIds) ==
    LET current_time == now
        res == SweepFrom(1, deviceKeys,
                         [devices |-> devices, table |-> dbDevices,
                          writes |-> NoIds, warns |-> NoIds],
                         current_time, tw, okIds)
        allOk == \A i \in DOMAIN res.writes : res.writes[i] \in okIds
    IN  /\ devices' = res.devices
        /\ dbDevices' = res.table
        /\ now' = IF res.writes = NoIds THEN now ELSE tw
        /\ dbFailed' = (dbFailed \/ ~allOk)
        /\ swept' = swept \cup {res.writes[i] : i \in DOMAIN res.writes}
        /\ last' = Step("health", None, res.writes, res.warns, 0, None)
        /\ published' = <<>>
        /\ UNCHANGED <<deviceKeys, dbTelemetry, dbCommands, cloud_client,
                       cloudTasks, routerAlive>>

\* The purge comparing with <= instead of <
TimestampBeforeOrEqual(a, b) == a = b \/ TextLess(a, b)

\* SQL: timestamp < ? on the stored text
TimestampBefore(a, b) == TextLess(a, b)

cleanup_old_data(dbOk) ==
    LET cutoff_date == now - RetentionDays
        kept(row) == ~TimestampBefore(row.timestamp, IsoFormat(cutoff_date))
    IN  /\ dbTelemetry' = IF dbOk THEN SelectSeq(dbTelemetry, kept)
                          ELSE dbTelemetry
        /\ dbFailed' = (dbFailed \/ ~dbOk)
        /\ last' = Step("cleanup", None, NoIds, NoIds,
                        Len(dbTelemetry) - Len(dbTelemetry'), None)
        /\ published' = <<>>
        /\ UNCHANGED <<now, devices, deviceKeys, dbDevices, dbCommands,
                       cloud_client, cloudTasks, routerAlive, swept>>

----------------------------------------------------------------------------
(* Steps *)

Registration ==
    /\ routerAlive
    /\ \E payload \in RegistrationPayloads, dbOk \in DbOutcomes :
          on_mqtt_message("registration", TRUE, payload, now, now, dbOk)
    /\ UNCHANGED lifecycle

Telemetry ==
    /\ routerAlive
    /\ Len(dbTelemetry) < MaxTelemetry
    /\ \E payload \in TelemetryPayloads, dbOk \in DbOutcomes :
          on_mqtt_message("telemetry", TRUE, payload, now, now, dbOk)
    /\ UNCHANGED lifecycle

StatusUpdate ==
    /\ routerAlive
    /\ \E payload \in StatusPayloads, dbOk \in DbOutcomes :
          on_mqtt_message("status", TRUE, payload, now, now, dbOk)
    /\ UNCHANGED lifecycle

Malformed ==
    /\ routerAlive
    /\ on_mqtt_message("telemetry", FALSE, None, now, now, TRUE)
    /\ UNCHANGED lifecycle

Unrouted ==
    /\ routerAlive
    /\ on_mqtt_message("other", TRUE, [uptime |-> 1], now, now, TRUE)
    /\ UNCHANGED lifecycle

HealthCheck ==
    /\ \E okIds \in {ids \in SUBSET DeviceIds :
                       \A d \in DeviceIds : (d \in ids) \in DbOutcomes} :
          check_device_health(now, okIds)
    /\ UNCHANGED lifecycle

Cleanup ==
    /\ \E dbOk \in DbOutcomes : cleanup_old_data(dbOk)
    /\ UNCHANGED lifecycle

Tick ==
    /\ now < MaxTime
    /\ now' = now + 1
    /\ last' = Step("tick", None, NoIds, NoIds, 0, None)
    /\ published' = <<>>
    /\ UNCHANGED <<devices, deviceKeys, dbDevices, dbTelemetry, dbCommands,
                   cloud_client, cloudTasks, routerAlive, dbFailed, swept>>
    /\ UNCHANGED lifecycle

Next ==
    \/ Registration
    \/ Telemetry
    \/ StatusUpdate
    \/ Malformed
    \/ Unrouted
    \/ HealthCheck
    \/ Cleanup
    \/ Tick

Spec == Init /\ [][Next]_vars

----------------------------------------------------------------------------
(* The service lifecycle: start(), the two background tasks, stop() and    *)
(* the end of asyncio.run.  Table writes may fail here.                    *)

\* Everything of the gateway but the step's output and the history record
gatewayData == <<now, devices, deviceKeys, dbDevices, dbTelemetry,
                 dbCommands, cloud_client, cloudTasks, routerAlive, dbFailed,
                 swept>>

\* A lifecycle step: it handles no message and touches no table
Lifecycle(op) ==
    /\ last' = Step(op, None, NoIds, NoIds, 0, None)
    /\ published' = <<>>
    /\ UNCHANGED gatewayData

\* The messages of the lifecycle model: one device, and a payload that is
\* not JSON
ServiceIds == {"d1"}

ServiceMessages ==
    {[topic |-> "registration", parses |-> TRUE,
      payload |-> [device_id |-> d, device_type |-> "sensor"]] :
        d \in ServiceIds} \cup
    {[topic |-> "telemetry", parses |-> TRUE,
      payload |-> [device_id |-> d, uptime |-> 1, temperature |-> c]] :
        d \in ServiceIds, c \in Temperatures} \cup
    {[topic |-> "status", parses |-> TRUE,
      payload |-> [device_id |-> d, status |-> "offline"]] :
        d \in ServiceIds} \cup
    {[topic |-> "telemetry", parses |-> FALSE, payload |-> [uptime |-> 1]]}

ServiceInit ==
    /\ Constructed
    /\ running = FALSE
    /\ startPc = "new"
    /\ healthPc = "none"
    /\ cleanupPc = "none"

\* start(): sets the flag, connects, creates the two tasks and enters the
\* `while self.running` wait; a failed connect is logged and start returns.
start(connects) ==
    /\ startPc = "new"
    /\ running' = TRUE
    /\ IF connects
       THEN /\ startPc' = "serving"
            /\ healthPc' = "ready"
            /\ cleanupPc' = "ready"
       ELSE /\ startPc' = "returned"
            /\ UNCHANGED <<healthPc, cleanupPc>>
    /\ Lifecycle("start")
    /\ UNCHANGED sweep

\* health_check_loop whose flag test always passes (`while True`)
health_check_loop_NoFlagTest(okIds) ==
    /\ healthPc \in {"ready", "sleeping"}
    /\ IF TRUE
       THEN /\ check_device_health(now, okIds)
            /\ healthPc' = "sleeping"
       ELSE /\ healthPc' = "done"
            /\ Lifecycle("health_exit")
    /\ UNCHANGED <<running, startPc, cleanupPc, sweep>>

\* health_check_loop in which the error of a failed UPDATE is not caught and
\* ends the task
health_check_loop_ErrorEscapes(okIds) ==
    /\ healthPc \in {"ready", "sleeping"}
    /\ IF running
       THEN /\ check_device_health(now, okIds)
            /\ healthPc' = IF dbFailed' # dbFailed THEN "crashed"
                           ELSE "sleeping"
       ELSE /\ healthPc' = "done"
            /\ Lifecycle("health_exit")
    /\ UNCHANGED <<running, startPc, cleanupPc, sweep>>

\* One turn of health_check_loop, from the flag test to the next sleep:
\* `while self.running: self.check_device_health(); await asyncio.sleep(60)`
health_check_loop(okIds) ==
    /\ healthPc \in {"ready", "sleeping"}
    /\ IF running
       THEN /\ check_device_health(now, okIds)
            /\ healthPc' = "sleeping"
       ELSE /\ healthPc' = "done"
            /\ Lifecycle("health_exit")
    /\ UNCHANGED <<running, startPc, cleanupPc, sweep>>

\* One turn of cleanup_loop:
\* `while self.running: await self.cleanup_old_data(); await asyncio.sleep(3600)`
cleanup_loop(dbOk) ==
    /\ cleanupPc \in {"ready", "sleeping"}
    /\ IF running
       THEN /\ cleanup_old_data(dbOk)
            /\ cleanupPc' = "sleeping"
       ELSE /\ cleanupPc' = "done"
            /\ Lifecycle("cleanup_exit")
    /\ UNCHANGED <<running, startPc, healthPc, sweep>>

\* stop(), awaited in the `finally` of start(): clears the flag and stops
\* the MQTT network thread
stop ==
    /\ startPc = "serving"
    /\ running' = FALSE
    /\ startPc' = "stopped"
    /\ Lifecycle("stop")
    /\ UNCHANGED <<healthPc, cleanupPc, sweep>>

Start == \E connects \in BOOLEAN : start(connects)

\* The MQTT network thread hands a message to on_mqtt_message
Deliver ==
    /\ startPc = "serving"
    /\ routerAlive
    /\ \E msg \in ServiceMessages, dbOk \in BOOLEAN :
          /\ (msg.parses /\ msg.topic = "telemetry")
                => Len(dbTelemetry) < MaxTelemetry
          /\ on_mqtt_message(msg.topic, msg.parses, msg.payload, now, now,
                             dbOk)
    /\ UNCHANGED lifecycle

HealthLoop == \E okIds \in SUBSET ServiceIds : health_check_loop(okIds)

CleanupLoop == \E dbOk \in BOOLEAN : cleanup_loop(dbOk)

Stop == stop

\* start() has returned: asyncio.run cancels the tasks that are left and
\* closes the event loop
Teardown ==
    /\ startPc = "stopped"
    /\ startPc' = "closed"
    /\ healthPc' = IF healthPc \in {"ready", "sleeping"} THEN "cancelled"
                   ELSE healthPc
    /\ cleanupPc' = IF cleanupPc \in {"ready", "sleeping"} THEN "cancelled"
                    ELSE cleanupPc
    /\ Lifecycle("teardown")
    /\ UNCHANGED <<running, sweep>>

ServiceNext ==
    \/ Start
    \/ Deliver
    \/ HealthLoop
    \/ CleanupLoop
    \/ Tick
    \/ Stop
    \/ Teardown

Service == ServiceInit /\ [][ServiceNext]_vars

\* The event loop runs a task whose sleep has ended, and asyncio.run ends
\* once start() has returned.
ServiceFair ==
    /\ Service
    /\ WF_vars(HealthLoop)
    /\ WF_vars(CleanupLoop)
    /\ WF_vars(Teardown)

----------------------------------------------------------------------------
(* The sweep interleaved with the MQTT network thread.                     *)
(* check_device_health runs in the event-loop thread, on_mqtt_message in   *)
(* the network thread started by loop_start(); nothing serialises the two, *)
(* so the handlers can run between any two steps of the sweep's loop.      *)

ConcurrentIds == {"d1", "d2"}

\* Registrations of both devices; telemetry and status messages of d1
ConcurrentMessages ==
    {[topic |-> "registration",
      payload |-> [device_id |-> d, device_type |-> "sensor"]] :
        d \in ConcurrentIds} \cup
    {[topic |-> "telemetry",
      payload |-> [device_id |-> "d1", uptime |-> 1, temperature |-> c]] :
        c \in Temperatures} \cup
    {[topic |-> "status",
      payload |-> [device_id |-> "d1", status |-> "online"]]}

\* The loop body's tests with the comparison of the two times reversed
NeedsDemotion_Reversed(device, current_time) ==
    /\ device.last_seen # NoTime
    /\ (device.last_seen - current_time) > OfflineThreshold
    /\ device.status # "offline"

\* The loop body's two tests:
\* `device.last_seen and (current_time - device.last_seen) > offline_threshold`
\* and `device.status != 'offline'`
NeedsDemotion(device, current_time) ==
    /\ device.last_seen # NoTime
    /\ (current_time - device.last_seen) > OfflineThreshold
    /\ device.status # "offline"

\* The frame of a sweep: the iterator's position i over self.devices.items()
\* and the dict size it expects, current_time, the device the loop variable
\* refers to, and whether a re-registration has since put another DeviceInfo
\* object under that device_id (the loop variable then refers to an object
\* that is no longer in the registry).
SweepFrame(pc, i, current_time, size, device_id, detached) ==
    [pc |-> pc, i |-> i, current_time |-> current_time, size |-> size,
     device_id |-> device_id, detached |-> detached]

\* check_device_health up to the start of the iteration
SweepBegin ==
    /\ sweep.pc = "idle"
    /\ sweep' = SweepFrame("next", 1, now, Len(deviceKeys), None, FALSE)
    /\ Lifecycle("sweep_begin")
    /\ UNCHANGED <<running, startPc, healthPc, cleanupPc>>

\* The iterator's next() and the loop body's tests.  A dict whose size has
\* changed makes next() raise RuntimeError, which the `except Exception` of
\* check_device_health logs: the sweep ends there.
SweepNext ==
    /\ sweep.pc = "next"
    /\ IF Len(deviceKeys) # sweep.size
       THEN /\ sweep' = NoSweep
            /\ Lifecycle("sweep_error")
       ELSE IF sweep.i > Len(deviceKeys)
       THEN /\ sweep' = NoSweep
            /\ Lifecycle("sweep_end")
       ELSE LET device_id == deviceKeys[sweep.i]
            IN  /\ sweep' = IF NeedsDemotion(devices[device_id],
                                             sweep.current_time)
                            THEN [sweep EXCEPT !.pc = "mark",
                                               !.device_id = device_id]
                            ELSE [sweep EXCEPT !.i = @ + 1]
                /\ Lifecycle("sweep_next")
    /\ UNCHANGED <<running, startPc, healthPc, cleanupPc>>

\* device.status = 'offline'
SweepMark ==
    /\ sweep.pc = "mark"
    /\ devices' = IF sweep.detached THEN devices
                  ELSE [devices EXCEPT ![sweep.device_id].status = "offline"]
    /\ sweep' = [sweep EXCEPT !.pc = "write"]
    /\ last' = Step("sweep_mark", sweep.device_id, NoIds, NoIds, 0,
                    StatusOf(devices, sweep.device_id))
    /\ published' = <<>>
    /\ UNCHANGED <<now, deviceKeys, dbDevices, dbTelemetry, dbCommands,
                   cloud_client, cloudTasks, routerAlive, dbFailed, swept>>
    /\ UNCHANGED <<running, startPc, healthPc, cleanupPc>>

\* self.update_device_status(device_id, 'offline') and the warning
SweepWrite ==
    /\ sweep.pc = "write"
    /\ dbDevices' = update_device_status(dbDevices, sweep.device_id,
                                         "offline", now, TRUE)
    /\ swept' = swept \cup {sweep.device_id}
    /\ sweep' = [sweep EXCEPT !.pc = "next", !.i = @ + 1,
                              !.device_id = None, !.detached = FALSE]
    /\ last' = Step("sweep_write", sweep.device_id, <<sweep.device_id>>,
                    <<sweep.device_id>>, 0,
                    StatusOf(devices, sweep.device_id))
    /\ published' = <<>>
    /\ UNCHANGED <<now, devices, deviceKeys, dbTelemetry, dbCommands,
                   cloud_client, cloudTasks, routerAlive, dbFailed>>
    /\ UNCHANGED <<running, startPc, healthPc, cleanupPc>>

\* The network thread handles a message, at any point of the sweep.  A
\* registration stores a new DeviceInfo object under its device_id.
ConcurrentDeliver ==
    /\ routerAlive
    /\ \E msg \in ConcurrentMessages :
          /\ msg.topic = "telemetry" => Len(dbTelemetry) < MaxTelemetry
          /\ on_mqtt_message(msg.topic, TRUE, msg.payload, now, now, TRUE)
          /\ sweep' = IF /\ msg.topic = "registration"
                         /\ sweep.pc = "mark"
                         /\ sweep.device_id = msg.payload.device_id
                      THEN [sweep EXCEPT !.detached = TRUE]
                      ELSE sweep
    /\ UNCHANGED <<running, startPc, healthPc, cleanupPc>>

ConcurrentNext ==
    \/ ConcurrentDeliver
    \/ SweepBegin
    \/ SweepNext
    \/ SweepMark
    \/ SweepWrite
    \/ Tick

Concurrent == Init /\ [][ConcurrentNext]_vars

\* Time passes, health_check_loop starts a sweep every minute, and the
\* event-loop thread keeps running a sweep it has started.
ConcurrentFair ==
    /\ Concurrent
    /\ WF_vars(Tick)
    /\ WF_vars(SweepBegin)
    /\ WF_vars(SweepNext)
    /\ WF_vars(SweepMark)
    /\ WF_vars(SweepWrite)

----------------------------------------------------------------------------
(* Properties *)

\* The step is the handling of `payload` on `topic`, its table write
\* succeeding.
Handles(topic, payload) ==
    on_mqtt_message(topic, TRUE, payload, now, now, TRUE)

\* C1: a registration of a device_id that is already registered leaves
\* exactly one registry entry for it, keeps the registration_time set by
\* the first registration, sets last_seen to the current time and status
\* to online.
C1_ReRegistrationKeepsRegistrationTime ==
    [][\A payload \in RegistrationPayloads :
          (/\ HasKey(payload, "device_id")
           /\ payload.device_id \in DOMAIN devices
           /\ Handles("registration", payload))
          => LET d == payload.device_id
             IN  /\ Count(deviceKeys', d) = 1
                 /\ d \in DOMAIN devices'
                 /\ devices'[d].registration_time = devices[d].registration_time
                 /\ devices'[d].last_seen = now'
                 /\ devices'[d].status = "online"]_vars

\* C2: when no table write has failed, every device of the registry has a
\* persisted row with the same status and the same last_seen.
C2_WriteThrough ==
    ~dbFailed =>
        \A d \in DOMAIN devices :
            /\ d \in DOMAIN dbDevices
            /\ dbDevices[d].status = devices[d].status
            /\ dbDevices[d].last_seen = IsoFormat(devices[d].last_seen)

\* C3: a sweep sets every online device whose last_seen is older than the
\* threshold to offline with exactly one update_device_status call for it;
\* for a device that an earlier sweep demoted and that got no message since,
\* a sweep makes no call, logs no warning and changes neither the registry
\* entry nor the persisted row.
C3_SweepIdempotent ==
    [][last'.op = "health" =>
          \A d \in DOMAIN devices :
             /\ (/\ devices[d].status = "online"
                 /\ now - devices[d].last_seen > OfflineThreshold)
                => /\ devices'[d].status = "offline"
                   /\ Count(last'.writes, d) = 1
                   /\ Count(last'.warns, d) = 1
             /\ d \in swept
                => /\ Count(last'.writes, d) = 0
                   /\ Count(last'.warns, d) = 0
                   /\ devices'[d] = devices[d]
                   /\ d \in DOMAIN dbDevices => dbDevices'[d] = dbDevices[d]]_vars

\* A second sweep has just run over a device the first one demoted.
C3_Witness ==
    /\ last.op = "health"
    /\ \E d \in swept :
          /\ Count(last.writes, d) = 0
          /\ devices[d].status = "offline"
          /\ d \in DOMAIN dbDevices
          /\ dbDevices[d].status = "offline"

\* C4: a telemetry or registration message whose payload has no device_id
\* changes neither the registry nor any table and publishes nothing.
C4_MissingDeviceIdDropped ==
    [][\A topic \in {"telemetry", "registration"} :
       \A payload \in TelemetryPayloads \cup RegistrationPayloads :
          (~HasKey(payload, "device_id") /\ Handles(topic, payload))
          => /\ UNCHANGED <<devices, deviceKeys, dbDevices, dbTelemetry,
                            dbCommands, cloudTasks>>
             /\ published' = <<>>]_vars

\* A message without device_id has just been handled while a device was
\* registered and persisted.
C4_Witness ==
    /\ last.op \in {"telemetry", "registration"}
    /\ last.id = None
    /\ DOMAIN devices # {}
    /\ DOMAIN dbDevices # {}

\* C5: a registration message for device d, its table write succeeding,
\* leaves a persisted row for d with status online, a registry entry for d
\* with status online, and publishes exactly one message, on
\* devices/d/commands, whose command is registration_confirmed.
C5_RegistrationPersistsAndConfirms ==
    [][\A payload \in RegistrationPayloads :
          (HasKey(payload, "device_id") /\ Handles("registration", payload))
          => LET d == payload.device_id
             IN  /\ d \in DOMAIN dbDevices'
                 /\ dbDevices'[d].status = "online"
                 /\ d \in DOMAIN devices'
                 /\ devices'[d].status = "online"
                 /\ Len(published') = 1
                 /\ published'[1].topic = <<"devices", d, "commands">>
                 /\ published'[1].command = "registration_confirmed"]_vars

\* A registration of a new device has just been handled.
C5_Witness ==
    /\ last.op = "registration"
    /\ last.id \in DeviceIds
    /\ last.was = None
    /\ last.id \in DOMAIN dbDevices
    /\ dbDevices[last.id].status = "online"
    /\ Len(published) = 1
    /\ published[1].topic = <<"devices", last.id, "commands">>

\* What C6 promises of the handling of `payload` for the registered device d
TelemetryApplied(payload, d) ==
    /\ devices'[d].last_seen = now'
    /\ devices'[d].status = "online"
    /\ devices'[d].registration_time = devices[d].registration_time
    /\ Len(dbTelemetry') = Len(dbTelemetry) + 1
    /\ SubSeq(dbTelemetry', 1, Len(dbTelemetry)) = dbTelemetry
    /\ dbTelemetry'[Len(dbTelemetry')] =
          [device_id |-> d, timestamp |-> IsoFormat(now'),
           temperature |-> Get(payload, "temperature", None)]
    /\ \A e \in DOMAIN devices' : e # d => /\ e \in DOMAIN devices
                                           /\ devices'[e] = devices[e]

C7_StatusOfUnknownDeviceIgnored ==
    [][\A payload \in StatusPayloads :
          (/\ Get(payload, "device_id", None) \notin DOMAIN devices
           /\ Handles("status", payload))
          => /\ UNCHANGED <<devices, deviceKeys, dbDevices>>
             /\ routerAlive']_vars

\* A status message for an unregistered device_id has just been handled
\* beside a registered, persisted device.
C7_Witness ==
    /\ last.op = "status"
    /\ last.id \in DeviceIds
    /\ last.id \notin DOMAIN devices
    /\ DOMAIN devices # {}
    /\ DOMAIN dbDevices # {}
    /\ routerAlive

\* rows is kept as the leading part of rows2: nothing deleted or modified
IsPrefix(rows, rows2) ==
    /\ Len(rows) <= Len(rows2)
    /\ SubSeq(rows2, 1, Len(rows)) = rows

\* The rows whose timestamp is the cutoff now - RetentionDays or newer
NotOlderThanCutoff(rows) ==
    LET retained(row) == FromIsoFormat(row.timestamp) >= now - RetentionDays
    IN  SelectSeq(rows, retained)

\* C8: a purge at time now deletes exactly the telemetry rows whose
\* timestamp is strictly older than now - RetentionDays (a row at the
\* cutoff stays), and every other step keeps the existing rows as they are.
C8_OnlyPurgeDeletesOldTelemetry ==
    [][/\ cleanup_old_data(TRUE)
          => /\ dbTelemetry' = NotOlderThanCutoff(dbTelemetry)
             /\ last'.deleted = Len(dbTelemetry) - Len(dbTelemetry')
       /\ last'.op # "cleanup" => IsPrefix(dbTelemetry, dbTelemetry')]_vars

\* A purge has just deleted a row while the clock had passed the retention
\* period.
C8_Witness ==
    /\ last.op = "cleanup"
    /\ last.deleted = 1
    /\ dbTelemetry = <<>>

\* C9 as claimed: every registry entry and every persisted row has status
\* online or offline.
C9_StatusOnlineOrOffline ==
    /\ \A d \in DOMAIN devices : devices[d].status \in {"online", "offline"}
    /\ \A d \in DOMAIN dbDevices : dbDevices[d].status \in {"online", "offline"}

\* The step is the handling of a status message for d that carries `status`
\* ("unknown" standing for a missing status field)
StatusMessageStores(d, status) ==
    \E payload \in StatusPayloads :
        /\ Get(payload, "device_id", None) = d
        /\ Get(payload, "status", "unknown") = status
        /\ Handles("status", payload)

\* C9 as amended: a registry entry or persisted row takes a status other
\* than online or offline only in the handling of a status message for that
\* device, and the status is the one the message carries ("unknown" when the
\* message has no status field); registration, telemetry and sweeps store
\* only online or offline.
C9_OtherStatusOnlyFromStatusMessage ==
    [][/\ \A d \in DOMAIN devices' :
             (/\ devices'[d].status \notin {"online", "offline"}
              /\ StatusOf(devices, d) # devices'[d].status)
             => StatusMessageStores(d, devices'[d].status)
       /\ \A d \in DOMAIN dbDevices' :
             (/\ dbDevices'[d].status \notin {"online", "offline"}
              /\ StatusOf(dbDevices, d) # dbDevices'[d].status)
             => StatusMessageStores(d, dbDevices'[d].status)]_vars

\* A status message without a status field has just set a registered,
\* persisted device to "unknown".
C9_Witness ==
    /\ last.op = "status"
    /\ last.id \in DOMAIN devices
    /\ last.id \in DOMAIN dbDevices
    /\ last.was = "online"
    /\ devices[last.id].status = "unknown"
    /\ dbDevices[last.id].status = "unknown"

\* C10 as claimed: a registry status goes from online to offline only in a
\* sweep step.
C10_OnlySweepDemotes ==
    [][\A d \in DOMAIN devices :
          (devices[d].status = "online" /\ devices'[d].status = "offline")
          => last'.op = "health"]_vars

\* C10 as amended: a status, in the registry or in the devices table, goes
\* from online to offline only in a sweep step that demotes the device or
\* in the handling of a status message for that device whose status field
\* is offline; no registration or telemetry message does it.
C10_OnlySweepOrOfflineMessageDemotes ==
    [][/\ \A d \in DOMAIN devices :
             (devices[d].status = "online" /\ devices'[d].status = "offline")
             => \/ last'.op = "health" /\ Count(last'.writes, d) = 1
                \/ \E payload \in StatusPayloads :
                      /\ HasKey(payload, "status")
                      /\ payload.status = "offline"
                      /\ Get(payload, "device_id", None) = d
                      /\ Handles("status", payload)
       /\ \A d \in DOMAIN dbDevices :
             (dbDevices[d].status = "online" /\ dbDevices'[d].status = "offline")
             => \/ last'.op = "health" /\ Count(last'.writes, d) = 1
                \/ \E payload \in StatusPayloads :
                      /\ HasKey(payload, "status")
                      /\ payload.status = "offline"
                      /\ Get(payload, "device_id", None) = d
                      /\ Handles("status", payload)]_vars

\* A status message has just moved an online device to offline.
C10_Witness ==
    /\ last.op = "status"
    /\ last.id \in DOMAIN devices
    /\ last.was = "online"
    /\ devices[last.id].status = "offline"
    /\ last.id \notin swept

\* C11 as claimed: the handling of a telemetry message that carries a
\* device_id submits exactly one forward to the cloud relay, of type
\* telemetry, carrying the original payload.
C11_TelemetryForwardedOnce ==
    [][\A payload \in TelemetryPayloads :
          (/\ Truthy(Get(payload, "device_id", None))
           /\ Handles("telemetry", payload))
          => cloudTasks' = Append(cloudTasks, [message_type |-> "telemetry",
                                               data |-> payload])]_vars

C15_LastSeenNeverDecreases ==
    [][/\ \A d \in DOMAIN devices :
             /\ d \in DOMAIN devices'
             /\ devices'[d].last_seen >= devices[d].last_seen
       /\ \A d \in DOMAIN dbDevices :
             /\ d \in DOMAIN dbDevices'
             /\ dbDevices[d].last_seen # NullText
                => /\ dbDevices'[d].last_seen # NullText
                   /\ FromIsoFormat(dbDevices'[d].last_seen)
                         >= FromIsoFormat(dbDevices[d].last_seen)]_vars

\* A message has just advanced the last_seen of a device registered at an
\* earlier time, in the registry and in its row.
C15_Witness ==
    /\ last.op \in {"registration", "status"}
    /\ last.id \in DOMAIN devices
    /\ last.id \in DOMAIN dbDevices
    /\ last.was # None
    /\ now > StartTime
    /\ devices[last.id].last_seen = now
    /\ dbDevices[last.id].last_seen = IsoFormat(now)

\* C16 as claimed: across a sweep, every device whose status is not online
\* or whose last_seen is within the threshold keeps its status, in the
\* registry and in its persisted row.
C16_SweepChangesOnlyOnlineStale ==
    [][last'.op = "health" =>
          \A d \in DOMAIN devices :
             (\/ devices[d].status # "online"
              \/ ~(now - devices[d].last_seen > OfflineThreshold))
             => /\ devices'[d].status = devices[d].status
                /\ d \in DOMAIN dbDevices
                   => dbDevices'[d].status = dbDevices[d].status]_vars

\* C18 as claimed: the handling of a registration message that is confirmed
\* appends one row for the device to the commands table, with status
\* pending; and every row of the commands table has status pending and a
\* null executed_at.
C18_ConfirmationCreatesPendingCommand ==
    /\ [][\A payload \in RegistrationPayloads :
             (/\ HasKey(payload, "device_id")
              /\ Handles("registration", payload))
             => /\ Len(dbCommands') = Len(dbCommands) + 1
                /\ dbCommands'[Len(dbCommands')].device_id = payload.device_id
                /\ dbCommands'[Len(dbCommands')].status = "pending"]_vars
    /\ [](\A i \in DOMAIN dbCommands :
             /\ dbCommands[i].status = "pending"
             /\ dbCommands[i].executed_at = NullText)

\* C13 as claimed: once start() has returned because the connection failed,
\* neither background task has been created and the running flag is not
\* set.
C13_FailedStartNotRunning ==
    startPc = "returned"
        => /\ healthPc = "none"
           /\ cleanupPc = "none"
           /\ ~running

\* C14: while the gateway is in service the router and both background
\* tasks stay alive, whatever failed before; and once a table write has
\* failed, a well-formed message is still handled: a registration
\* registers the device as online and is confirmed, a telemetry message
\* whose write succeeds appends its row, a status message for a registered
\* device stores its status.
C14_FailureIsolation ==
    /\ [](startPc = "serving"
            => /\ routerAlive
               /\ healthPc \in {"ready", "sleeping"}
               /\ cleanupPc \in {"ready", "sleeping"})
    /\ [][\A msg \in ServiceMessages, dbOk \in BOOLEAN :
             (/\ dbFailed
              /\ msg.parses
              /\ on_mqtt_message(msg.topic, TRUE, msg.payload, now, now, dbOk))
             => LET d == msg.payload.device_id
                IN  /\ msg.topic = "registration"
                       => /\ d \in DOMAIN devices'
                          /\ devices'[d].status = "online"
                          /\ Len(published') = 1
                    /\ (msg.topic = "telemetry" /\ dbOk)
                       => Len(dbTelemetry') = Len(dbTelemetry) + 1
                    /\ (msg.topic = "status" /\ d \in DOMAIN devices)
                       => devices'[d].status = msg.payload.status]_vars

\* After some table write had failed, a sweep has just demoted d1 and its
\* UPDATE went through.
C14_Witness ==
    /\ dbFailed
    /\ startPc = "serving"
    /\ last.op = "health"
    /\ last.writes = <<"d1">>
    /\ "d1" \in DOMAIN dbDevices
    /\ dbDevices["d1"].status = "offline"
    /\ dbDevices["d1"].last_seen = IsoFormat(now)

\* C17: a sweep or a purge is only ever performed while the running flag
\* is set, and once stop() has cleared the flag both background tasks
\* eventually end.
C17_LoopsEndAfterStop ==
    /\ [][last'.op \in {"health", "cleanup"} => running]_vars
    /\ (startPc = "stopped")
          ~> (/\ healthPc \in {"done", "cancelled"}
              /\ cleanupPc \in {"done", "cancelled"})

\* After stop(), both tasks have found the flag cleared and returned, the
\* health task after at least one sweep that demoted a device.
C17_Witness ==
    /\ startPc = "stopped"
    /\ ~running
    /\ healthPc = "done"
    /\ cleanupPc = "done"
    /\ swept # {}

\* The step is the handling of some message for device d
MessageFor(d) ==
    \E msg \in ConcurrentMessages :
        /\ msg.payload.device_id = d
        /\ on_mqtt_message(msg.topic, TRUE, msg.payload, now, now, TRUE)

C20_SweepCheckAndWriteAtomic ==
    /\ [][((sweep.pc = "mark" /\ sweep'.pc = "write" /\ ~sweep.detached)
             \/ (sweep.pc = "write" /\ sweep'.pc = "next"))
          => now - devices[sweep.device_id].last_seen > OfflineThreshold]_vars
    /\ [](sweep.pc = "idle"
            => \A d \in (DOMAIN devices) \cap (DOMAIN dbDevices) :
                  devices[d].status = dbDevices[d].status)

\* C21 as claimed: when a sweep interleaved with the handlers ends, no
\* device is left online that was stale at the sweep's current_time and
\* has had no message since (a message would have advanced its last_seen
\* to that time or later), even if a new device was registered during the
\* iteration.
C21_SweepCompletesDespiteRegistration ==
    [][(sweep.pc = "next" /\ sweep'.pc = "idle")
          => \A d \in DOMAIN devices :
                ~(/\ devices[d].status = "online"
                  /\ sweep.current_time - devices[d].last_seen
                        > OfflineThreshold)]_vars

====
